---- MODULE Spec2Model ----
(***************************************************************************)
(* A model of the MixPanel-to-Slack reporting core:                        *)
(*   shared/mixpanel_client.py   get_date_range, MixPanelClient            *)
(*   shared/report_generator.py  ReportGenerator                           *)
(*   shared/slack_client.py      SlackClient                               *)
(*   SlackCommand/__init__.py    the slash-command trigger                 *)
(*   CustomReport/__init__.py    the HTTP custom-report trigger            *)
(*                                                                         *)
(* Conventions.                                                            *)
(*  - A calendar date is an integer day number.  datetime.now() is the     *)
(*    variable today; strftime("%Y-%m-%d") keeps the day and drops the     *)
(*    time of day, so a formatted date is its day number.                  *)
(*  - A Python dict is a sequence of [k, v] entries in insertion order     *)
(*    (dicts iterate in insertion order).                                  *)
(*  - A percentage is kept in tenths of a percent (50.0% is 500), which    *)
(*    is exactly what round(change, 1) can represent.                      *)
(*  - A call that raises yields the record Raised(..) instead of a value.  *)
(***************************************************************************)
EXTENDS Integers, Sequences, FiniteSets, TLC

VARIABLES
    pc,                 \* position of the running operation
    call,               \* the entry point invoked and its arguments
    today,              \* datetime.now(), as a day number
    report,             \* the report dict under construction / returned
    previous_period,    \* generate_report's locals prev_from, prev_to
    previous_metrics,   \* generate_report's local previous_metrics
    hist,               \* what the collaborator answered during this run
    args,               \* inputs of a pure function under check
    result,             \* its return value
    thread,             \* the background thread a trigger started
    posts,              \* the HTTP POSTs performed so far, in order
    core                \* the calls made on ReportGenerator by a trigger

vars == <<pc, call, today, report, previous_period, previous_metrics, hist,
         args, result, thread, posts, core>>

----------------------------------------------------------------------------
(* Bounds of the model *)

MaxVal == 20        \* metric totals handed to _calculate_change: 0..MaxVal
MaxEvents == 6      \* length of a raw event export
MaxLimit == 3       \* the limit handed to get_top_events: 0..MaxLimit
MaxLive == 1        \* queries of one window that answer with data, in Spec
FirstDay == 100     \* the day on which the report is requested
MaxMondays == 160   \* Mondays on which the bi-weekly timer fires

----------------------------------------------------------------------------
(* Python dicts and lists *)

NoValue == [none |-> TRUE]

NoDate == -1        \* a date that is None or ""

Abs(n) == IF n < 0 THEN -n ELSE n

Min(a, b) == IF a < b THEN a ELSE b

RECURSIVE SumSeq(_)
SumSeq(s) == IF s = <<>> THEN 0 ELSE Head(s) + SumSeq(Tail(s))

DictKeys(d) == {d[i].k : i \in DOMAIN d}

DictHas(d, key) == \E i \in DOMAIN d : d[i].k = key

\* d.get(key, default)
DictGet(d, key, default) ==
    IF DictHas(d, key)
    THEN d[CHOOSE i \in DOMAIN d : d[i].k = key].v
    ELSE default

\* d[key] = value: an existing key keeps its position, a new key goes last
DictSet(d, key, value) ==
    IF DictHas(d, key)
    THEN [i \in DOMAIN d |-> IF d[i].k = key THEN [k |-> key, v |-> value] ELSE d[i]]
    ELSE Append(d, [k |-> key, v |-> value])

\* s[:n] for n >= 0
Take(s, n) == SubSeq(s, 1, Min(n, Len(s)))

Raised(what) == [raised |-> what]

IsRaised(x) == "raised" \in DOMAIN x

----------------------------------------------------------------------------
(* shared/mixpanel_client.py *)

\* get_date_range: the lookback of a period name, in days
LookbackDays(period) ==
    IF period = "daily" THEN 1
    ELSE IF period = "weekly" THEN 7
    ELSE IF period = "biweekly" THEN 14
    ELSE IF period = "monthly" THEN 30
    ELSE 1

get_date_range(period, now) ==
    [from_date |-> now - LookbackDays(period), to_date |-> now]

\* event.get("event", "unknown")
EventName(event) == IF "event" \in DOMAIN event THEN event.event ELSE "unknown"

\* the counting loop of get_top_events
RECURSIVE CountEvents(_, _)
CountEvents(events, event_counts) ==
    IF events = <<>> THEN event_counts
    ELSE CountEvents(Tail(events),
                     DictSet(event_counts, EventName(Head(events)),
                             DictGet(event_counts, EventName(Head(events)), 0) + 1))

\* A plausible slip: an item goes in front of the items of equal count.
InsertDescTiesFirst(sorted, item) ==
    LET before == {i \in DOMAIN sorted : sorted[i].v > item.v}
        n == Cardinality(before)
    IN SubSeq(sorted, 1, n) \o <<item>> \o SubSeq(sorted, n + 1, Len(sorted))

\* One step of sorted(..., key=count, reverse=True): the sort is stable, so an
\* item goes behind every item whose count is greater than or equal to its own.
InsertDesc(sorted, item) ==
    LET before == {i \in DOMAIN sorted : sorted[i].v >= item.v}
        n == Cardinality(before)
    IN SubSeq(sorted, 1, n) \o <<item>> \o SubSeq(sorted, n + 1, Len(sorted))

RECURSIVE SortedDesc(_, _)
SortedDesc(items, sorted) ==
    IF items = <<>> THEN sorted
    ELSE SortedDesc(Tail(items), InsertDesc(sorted, Head(items)))

\* MixPanelClient.get_top_events, given what export_raw_events returned
get_top_events(events, limit) ==
    LET sorted_events == SortedDesc(CountEvents(events, <<>>), <<>>)
        top == Take(sorted_events, limit)
    IN [i \in DOMAIN top |-> [event |-> top[i].k, count |-> top[i].v]]

----------------------------------------------------------------------------
(* shared/report_generator.py: comparison *)

PERIOD_DAYS == <<[k |-> "daily", v |-> 1], [k |-> "weekly", v |-> 7],
                 [k |-> "biweekly", v |-> 14], [k |-> "monthly", v |-> 30]>>

\* round(n / d) for n >= 0, d > 0: Python rounds a tie to the even neighbour
RoundHalfEven(n, d) ==
    LET q == n \div d
        r == n % d
    IN IF 2 * r < d THEN q
       ELSE IF 2 * r > d THEN q + 1
       ELSE IF q % 2 = 0 THEN q ELSE q + 1

\* A plausible slip: the abs() around the rounded change is forgotten.
SignedPercent(current, previous) ==
    IF current >= previous
    THEN RoundHalfEven((current - previous) * 1000, previous)
    ELSE -RoundHalfEven((previous - current) * 1000, previous)

\* abs(round(((current - previous) / previous) * 100, 1)), in tenths of a percent
AbsPercent(current, previous) ==
    RoundHalfEven(Abs((current - previous) * 1000), previous)

_calculate_change(current, previous) ==
    IF previous = 0
    THEN IF current > 0
         THEN [percent |-> 1000, direction |-> "up", is_new |-> TRUE]
         ELSE [percent |-> 0, direction |-> "flat", is_new |-> FALSE]
    ELSE LET change == (current - previous) * 1000
             direction == IF change > 0 THEN "up"
                          ELSE IF change < 0 THEN "down" ELSE "flat"
         IN [percent |-> AbsPercent(current, previous),
             direction |-> direction,
             previous |-> previous,
             is_new |-> FALSE]

\* _get_previous_period_dates
_get_previous_period_dates(period, now) ==
    LET days == DictGet(PERIOD_DAYS, period, 7)
        prev_to == now - days
        prev_from == prev_to - days
    IN [from_date |-> prev_from, to_date |-> prev_to]

----------------------------------------------------------------------------
(* The analytics collaborator (self.mixpanel), as seen by ReportGenerator *)

\* What one query call can do: raise, or return one of these bodies.
RaiseResp == Raised("ConnectionError")
ErrorBody == [error |-> "HTTPError"]             \* _make_request's error value
NoneBody == <<>>                                 \* None or {}
NoValuesBody == [data |-> [series |-> <<>>]]     \* "data" without "values"
OkBody(values) == [data |-> [values |-> values]]

\* data["data"]["values"]: one entry per segment, each a list of per-day counts
OkShapes == << <<<<3, 4>>>>, <<<<0, 0>>, <<>>>>, <<<<1>>, <<1, 1>>>> >>

FailResp(kind) ==
    IF kind = "raise" THEN RaiseResp
    ELSE IF kind = "error" THEN ErrorBody
    ELSE IF kind = "none" THEN NoneBody
    ELSE NoValuesBody

\* The failures a run of failing calls cycles through
FailMixes == << <<"raise">>, <<"error", "raise">>,
                <<"none", "novalues", "error", "raise">> >>

Query(type, event) == [type |-> type, event |-> event]

----------------------------------------------------------------------------
(* shared/report_generator.py: metrics *)

KEY_METRIC_EVENTS ==
    <<[k |-> "New Signups", v |-> "Sign Up"],
      [k |-> "Users Onboarded", v |-> "User Onboarded"],
      [k |-> "Receipts Uploaded", v |-> "Receipt Uploaded"],
      [k |-> "PlanetPoints Added", v |-> "PlanetPoints Added"],
      [k |-> "Vouchers Redeemed", v |-> "Voucher Redeemed"],
      [k |-> "Products Tracked", v |-> "PlanetPoints Product Tracked"],
      [k |-> "Referrals Completed", v |-> "Referral Completed"]>>

\* the candidate events of the active-users loop
ACTIVE_USER_EVENTS == <<"$ae_session", "Sign Up", "User Onboarded">>

\* every query one _calculate_metrics call can issue, in call order
QuerySeq ==
    [i \in DOMAIN ACTIVE_USER_EVENTS |-> Query("unique", ACTIVE_USER_EVENTS[i])]
    \o [i \in DOMAIN KEY_METRIC_EVENTS |-> Query("general", KEY_METRIC_EVENTS[i].v)]

Queries == {QuerySeq[i] : i \in DOMAIN QuerySeq}

QueryIndex(q) == CHOOSE i \in DOMAIN QuerySeq : QuerySeq[i] = q

\* the user_metric_name table
user_metric_name(period) ==
    IF period = "daily" THEN "Daily Active Users"
    ELSE IF period = "weekly" THEN "Weekly Active Users"
    ELSE IF period = "biweekly" THEN "Bi-Weekly Active Users"
    ELSE IF period = "monthly" THEN "Monthly Active Users"
    ELSE "Active Users"

\* data and "data" in data and "values" in data["data"]
HasValues(data) ==
    /\ DOMAIN data # {}
    /\ "data" \in DOMAIN data
    /\ "values" \in DOMAIN data.data

\* sum(sum(day_values.values()) for day_values in data["data"]["values"].values())
Total(data) ==
    LET values == data.data.values
    IN SumSeq([i \in DOMAIN values |-> SumSeq(values[i])])

\* A plausible slip: the break is forgotten, so the last nonzero candidate wins.
RECURSIVE TotalUsersLastNonzero(_, _)
TotalUsersLastNonzero(answers, events) ==
    IF events = <<>> THEN 0
    ELSE LET data == answers[Query("unique", Head(events))]
             later == TotalUsersLastNonzero(answers, Tail(events))
         IN IF later > 0 THEN later
            ELSE IF IsRaised(data) THEN 0
            ELSE IF HasValues(data) /\ Total(data) > 0 THEN Total(data)
            ELSE 0

\* the loop over the candidate events: the first nonzero unique count, or 0
RECURSIVE total_users(_, _)
total_users(answers, events) ==
    IF events = <<>> THEN 0
    ELSE LET data == answers[Query("unique", Head(events))]
         IN IF IsRaised(data) THEN total_users(answers, Tail(events))
            ELSE IF HasValues(data) /\ Total(data) > 0 THEN Total(data)
            ELSE total_users(answers, Tail(events))

\* A plausible slip: the test total > 0 is forgotten.
KeyMetricNoZeroTest(metrics, display_name, data) ==
    IF IsRaised(data) THEN metrics
    ELSE IF HasValues(data) THEN DictSet(metrics, display_name, Total(data))
    ELSE metrics

\* A plausible slip: a failed or empty metric is zero-filled instead of omitted.
KeyMetricZeroFilled(metrics, display_name, data) ==
    IF IsRaised(data) THEN DictSet(metrics, display_name, 0)
    ELSE IF HasValues(data) THEN DictSet(metrics, display_name, Total(data))
    ELSE DictSet(metrics, display_name, 0)

\* the body of the loop over KEY_METRIC_EVENTS, given what the query did
KeyMetric(metrics, display_name, data) ==
    IF IsRaised(data) THEN metrics
    ELSE IF HasValues(data) /\ Total(data) > 0
         THEN DictSet(metrics, display_name, Total(data))
    ELSE metrics

RECURSIVE KeyMetrics(_, _, _)
KeyMetrics(answers, table, metrics) ==
    IF table = <<>> THEN metrics
    ELSE KeyMetrics(answers, Tail(table),
                    KeyMetric(metrics, Head(table).k,
                              answers[Query("general", Head(table).v)]))

_calculate_metrics(answers, period) ==
    LET users == total_users(answers, ACTIVE_USER_EVENTS)
        metrics == IF users > 0
                   THEN DictSet(<<>>, user_metric_name(period), users)
                   ELSE <<>>
    IN KeyMetrics(answers, KEY_METRIC_EVENTS, metrics)

\* A plausible slip: a metric that the previous period lacks is passed over.
RECURSIVE CompareSkipAbsent(_, _)
CompareSkipAbsent(current, previous) ==
    IF current = <<>> THEN <<>>
    ELSE (IF DictHas(previous, Head(current).k)
          THEN <<[k |-> Head(current).k,
                  v |-> _calculate_change(Head(current).v,
                                          DictGet(previous, Head(current).k, 0))]>>
          ELSE <<>>)
         \o CompareSkipAbsent(Tail(current), previous)

\* A plausible slip: the loop runs over the previous period's metrics.
RECURSIVE CompareOverPrevious(_, _)
CompareOverPrevious(current, previous) ==
    IF previous = <<>> THEN <<>>
    ELSE <<[k |-> Head(previous).k,
            v |-> _calculate_change(DictGet(current, Head(previous).k, 0),
                                    Head(previous).v)]>>
         \o CompareOverPrevious(current, Tail(previous))

\* _compute_comparisons
RECURSIVE _compute_comparisons(_, _)
_compute_comparisons(current, previous) ==
    IF current = <<>> THEN <<>>
    ELSE LET metric_name == Head(current).k
             current_value == Head(current).v
             previous_value == DictGet(previous, metric_name, 0)
         IN <<[k |-> metric_name,
               v |-> _calculate_change(current_value, previous_value)]>>
            \o _compute_comparisons(Tail(current), previous)

----------------------------------------------------------------------------
(* shared/report_generator.py: insights *)

\* An insight string is kept as a record of the parts the f-string prints.

period_label(period) ==
    IF period = "daily" THEN "day"
    ELSE IF period = "weekly" THEN "week"
    ELSE IF period = "biweekly" THEN "two weeks"
    ELSE IF period = "monthly" THEN "month"
    ELSE "period"

NoComparison == <<>>

\* A plausible slip: the direction is looked at before is_new.
FormatDirectionFirst(label, value, comparison, plabel) ==
    IF DOMAIN comparison = {}
    THEN [text |-> "bare", label |-> label, value |-> value]
    ELSE IF comparison.direction = "up"
    THEN [text |-> "up", label |-> label, value |-> value,
          percent |-> comparison.percent,
          previous |-> IF "previous" \in DOMAIN comparison
                       THEN comparison.previous ELSE 0]
    ELSE IF comparison.direction = "down"
    THEN [text |-> "down", label |-> label, value |-> value,
          percent |-> comparison.percent, previous |-> comparison.previous]
    ELSE IF comparison.is_new
    THEN [text |-> "new", label |-> label, value |-> value,
          period_label |-> plabel]
    ELSE [text |-> "unchanged", label |-> label, value |-> value]

_format_metric_insight(label, value, comparison, plabel) ==
    IF DOMAIN comparison = {}
    THEN [text |-> "bare", label |-> label, value |-> value]
    ELSE LET direction == IF "direction" \in DOMAIN comparison
                          THEN comparison.direction ELSE "flat"
             percent == IF "percent" \in DOMAIN comparison
                        THEN comparison.percent ELSE 0
             previous == IF "previous" \in DOMAIN comparison
                         THEN comparison.previous ELSE 0
             is_new == IF "is_new" \in DOMAIN comparison
                       THEN comparison.is_new ELSE FALSE
         IN IF is_new
            THEN [text |-> "new", label |-> label, value |-> value,
                  period_label |-> plabel]
            ELSE IF direction = "up"
            THEN [text |-> "up", label |-> label, value |-> value,
                  percent |-> percent, previous |-> previous]
            ELSE IF direction = "down"
            THEN [text |-> "down", label |-> label, value |-> value,
                  percent |-> percent, previous |-> previous]
            ELSE [text |-> "unchanged", label |-> label, value |-> value]

key_insights == <<[k |-> "New Signups", v |-> "New signups"],
                  [k |-> "Users Onboarded", v |-> "Users onboarded"],
                  [k |-> "Receipts Uploaded", v |-> "Receipts uploaded"],
                  [k |-> "Vouchers Redeemed", v |-> "Vouchers redeemed"]>>

active_user_keys == <<"Daily Active Users", "Weekly Active Users",
                      "Monthly Active Users", "Bi-Weekly Active Users">>

\* the loop over key_insights
RECURSIVE KeyInsights(_, _, _, _)
KeyInsights(table, metrics, comparisons, plabel) ==
    IF table = <<>> THEN <<>>
    ELSE (IF DictHas(metrics, Head(table).k)
          THEN <<_format_metric_insight(
                    Head(table).v,
                    DictGet(metrics, Head(table).k, 0),
                    DictGet(comparisons, Head(table).k, NoComparison),
                    plabel)>>
          ELSE <<>>)
         \o KeyInsights(Tail(table), metrics, comparisons, plabel)

\* the loop over the active-users keys, leaving at the first key present
RECURSIVE ActiveUsersInsight(_, _, _, _)
ActiveUsersInsight(keys, metrics, comparisons, plabel) ==
    IF keys = <<>> THEN <<>>
    ELSE IF DictHas(metrics, Head(keys))
    THEN <<_format_metric_insight(
              Head(keys),
              DictGet(metrics, Head(keys), 0),
              DictGet(comparisons, Head(keys), NoComparison),
              plabel)>>
    ELSE ActiveUsersInsight(Tail(keys), metrics, comparisons, plabel)

\* top_event['event'] / top_event['count'] raise KeyError on a record without them
TopEventRaises(top_events) ==
    /\ top_events # <<>>
    /\ ~({"event", "count"} \subseteq DOMAIN top_events[1])

TopEventInsight(top_events) ==
    IF top_events = <<>> THEN <<>>
    ELSE <<[text |-> "top_event", event |-> top_events[1].event,
            count |-> top_events[1].count]>>

FallbackInsight == [text |-> "fallback"]

\* A plausible slip: the fallback is appended whatever was emitted before.
DefaultInsightAlways(insights) == Append(insights, FallbackInsight)

\* if not insights: insights.append("Analytics data collected successfully")
DefaultInsight(insights) ==
    IF insights = <<>> THEN <<FallbackInsight>> ELSE insights

\* A plausible slip: the top-event insight is emitted before the metric insights.
InsightOrderTopFirst(headline, active, top) == top \o headline \o active

\* the order in which _generate_insights appends
InsightOrder(headline, active, top) == headline \o active \o top

\* _generate_insights, for a report whose top events it can read
_generate_insights(rep) ==
    LET plabel == period_label(rep.period)
        headline == KeyInsights(key_insights, rep.metrics, rep.comparisons, plabel)
        active == ActiveUsersInsight(active_user_keys, rep.metrics,
                                     rep.comparisons, plabel)
        top == TopEventInsight(rep.top_events)
    IN DefaultInsight(InsightOrder(headline, active, top))

----------------------------------------------------------------------------
(* shared/slack_client.py: the report renderer *)

\* A block is a record: its "type" as Block Kit names it, and the parts its
\* text is formatted from.  The three content sections and the link section
\* are told apart by the title their text starts with.

CompanyName == "Reewild"

MixpanelUrl == "https://eu.mixpanel.com"

BarWidth == 8       \* the 8 of the bar of a top event
ShownEvents == 5    \* top_events[:5]

Max(a, b) == IF a > b THEN a ELSE b

\* max(e['count'] for e in events), for a list that is not empty
RECURSIVE MaxCount(_)
MaxCount(events) ==
    IF Len(events) = 1 THEN events[1].count
    ELSE Max(events[1].count, MaxCount(Tail(events)))

\* str.capitalize(), for the period names of the model
Capitalize(word) ==
    CASE word = "custom" -> "Custom"
      [] word = "yearly" -> "Yearly"
      [] word = "daily" -> "Daily"
      [] word = "weekly" -> "Weekly"
      [] word = "biweekly" -> "Biweekly"
      [] word = "monthly" -> "Monthly"

\* the period_label table of _build_report_blocks
report_period_label(period) ==
    IF period = "daily" THEN "Daily"
    ELSE IF period = "weekly" THEN "Weekly"
    ELSE IF period = "biweekly" THEN "Bi-Weekly"
    ELSE IF period = "monthly" THEN "Monthly"
    ELSE Capitalize(period)

\* date_range_str: the window when both dates are given, else today's date
date_range_str(from_date, to_date, now) ==
    IF from_date # NoDate /\ to_date # NoDate
    THEN [from |-> from_date, to |-> to_date]
    ELSE [on |-> now]

\* _format_change_indicator; <<>> is the empty string
_format_change_indicator(comparison) ==
    IF DOMAIN comparison = {} THEN <<>>
    ELSE LET direction == IF "direction" \in DOMAIN comparison
                          THEN comparison.direction ELSE "flat"
             percent == IF "percent" \in DOMAIN comparison
                        THEN comparison.percent ELSE 0
         IN IF direction = "up" THEN [arrow |-> "up", percent |-> percent]
            ELSE IF direction = "down" THEN [arrow |-> "down", percent |-> percent]
            ELSE [arrow |-> "flat", percent |-> 0]

Divider == [type |-> "divider"]

Section(title, lines) == [type |-> "section", title |-> title, lines |-> lines]

HeaderBlocks(period, from_date, to_date, now) ==
    <<[type |-> "header",
       text |-> <<CompanyName, report_period_label(period), "Report">>],
      [type |-> "context",
       text |-> [date_range |-> date_range_str(from_date, to_date, now),
                 summary |-> report_period_label(period)]],
      Divider>>

\* if metrics: one line per metric, with its change indicator when it has one
MetricsBlocks(metrics, comparisons) ==
    IF metrics = <<>> THEN <<>>
    ELSE <<Section("Key Metrics",
                   [i \in DOMAIN metrics |->
                       LET change_str == _format_change_indicator(
                               DictGet(comparisons, metrics[i].k, <<>>))
                       IN IF change_str # <<>>
                          THEN [name |-> metrics[i].k, value |-> metrics[i].v,
                                change |-> change_str]
                          ELSE [name |-> metrics[i].k, value |-> metrics[i].v]])>>

\* the bar of one event: filled and empty characters
Bar(count, max_count) ==
    LET bar_length == (count * BarWidth) \div max_count
    IN [filled |-> Max(1, bar_length), empty |-> BarWidth - bar_length]

TopEventLines(top_events) ==
    LET shown == Take(top_events, ShownEvents)
    IN [i \in DOMAIN shown |->
           [bar |-> Bar(shown[i].count, MaxCount(shown)),
            event |-> shown[i].event, count |-> shown[i].count]]

\* A plausible slip: the section is appended without the test for content.
TopEventsBlocksAlways(top_events) ==
    <<Divider, Section("Top Events", TopEventLines(top_events))>>

\* if top_events: a divider and the section
TopEventsBlocks(top_events) ==
    IF top_events = <<>> THEN <<>>
    ELSE <<Divider, Section("Top Events", TopEventLines(top_events))>>

\* if insights: a divider and the section
InsightsBlocks(insights) ==
    IF insights = <<>> THEN <<>>
    ELSE <<Divider, Section("Insights", insights)>>

\* if mixpanel_url: a divider and the section with the button; "" is no URL
LinkBlocks(mixpanel_url) ==
    IF mixpanel_url = "" THEN <<>>
    ELSE <<Divider, [type |-> "section", title |-> "Explore More",
                     url |-> mixpanel_url]>>

FooterBlocks ==
    <<Divider, [type |-> "context", text |-> <<CompanyName, "Analytics">>]>>

\* A plausible slip: the insights are appended before the top events.
BlockOrderInsightsFirst(head, metrics, top, insights, link, foot) ==
    head \o metrics \o insights \o top \o link \o foot

\* the order in which _build_report_blocks appends
BlockOrder(head, metrics, top, insights, link, foot) ==
    head \o metrics \o top \o insights \o link \o foot

_build_report_blocks(period, metrics, top_events, insights, comparisons, mixpanel_url, from_date, to_date, now) ==
    BlockOrder(HeaderBlocks(period, from_date, to_date, now),
               MetricsBlocks(metrics, comparisons),
               TopEventsBlocks(top_events),
               InsightsBlocks(insights),
               LinkBlocks(mixpanel_url),
               FooterBlocks)

----------------------------------------------------------------------------
(* Values of the variables an operation does not use *)

NoCall == [entry |-> "none"]
NoReport == [none |-> TRUE]
NoPeriod == [none |-> TRUE]
NoHist == [none |-> TRUE]
NoArgs == [none |-> TRUE]

NoThread == [state |-> "none"]

\* the variables of the report generation, for an operation that is not one
Unused ==
    /\ call = NoCall /\ today = 0 /\ report = NoReport
    /\ previous_period = NoPeriod /\ previous_metrics = <<>> /\ hist = NoHist

\* the variables of the triggers, for an operation no trigger started
NoTrigger == thread = NoThread /\ posts = <<>> /\ core = <<>>

----------------------------------------------------------------------------
(* _calculate_change as a function of its two arguments *)

InitChange ==
    /\ pc = "call"
    /\ args \in [current : 0..MaxVal, previous : 0..MaxVal]
    /\ result = NoValue
    /\ Unused
    /\ NoTrigger

ApplyChange ==
    /\ pc = "call"
    /\ pc' = "return"
    /\ result' = _calculate_change(args.current, args.previous)
    /\ UNCHANGED <<thread, posts, core, call, today, report, previous_period, previous_metrics, hist, args>>

NextChange == ApplyChange

SpecChange == InitChange /\ [][NextChange]_vars

\* Totals of the size a busy event reaches.  No pair of them has a change
\* that lies halfway between two tenths, where the float and the exact
\* quotient may round apart.
WideValues == {0, 1, 2, 3, 2001, 2002, 2501, 2502, 5001, 5003}

InitChangeWide ==
    /\ pc = "call"
    /\ args \in [current : WideValues, previous : WideValues]
    /\ result = NoValue
    /\ Unused
    /\ NoTrigger

SpecChangeWide == InitChangeWide /\ [][NextChange]_vars

----------------------------------------------------------------------------
(* get_top_events as a function of the exported records and the limit *)

RawRecords == {[event |-> "Sign Up"], [event |-> "Receipt Uploaded"],
               [event |-> "unknown"], [properties |-> "p"]}

RawExports == UNION {[1..n -> RawRecords] : n \in 0..MaxEvents}

InitTop ==
    /\ pc = "call"
    /\ args \in [events : RawExports, limit : 0..MaxLimit]
    /\ result = NoValue
    /\ Unused
    /\ NoTrigger

ApplyTop ==
    /\ pc = "call"
    /\ pc' = "return"
    /\ result' = get_top_events(args.events, args.limit)
    /\ UNCHANGED <<thread, posts, core, call, today, report, previous_period, previous_metrics, hist, args>>

NextTop == ApplyTop

SpecTop == InitTop /\ [][NextTop]_vars

----------------------------------------------------------------------------
(* _calculate_metrics as a function of what the collaborator answers *)

Periods == {"daily", "weekly", "biweekly", "monthly", "custom", "yearly"}

\* The answers of one window: the queries in live return data, the others
\* fail the way the mix says.
Answers(live, mix, vrot) ==
    [q \in Queries |->
        IF q \in live
        THEN OkBody(OkShapes[((QueryIndex(q) + vrot) % Len(OkShapes)) + 1])
        ELSE FailResp(mix[(QueryIndex(q) % Len(mix)) + 1])]

AnswerFamily(n) ==
    {Answers(live, FailMixes[m], vrot) :
        live \in {S \in SUBSET Queries : Cardinality(S) <= n},
        m \in DOMAIN FailMixes,
        vrot \in 0..(Len(OkShapes) - 1)}

InitMetrics ==
    /\ pc = "call"
    /\ args \in [answers : AnswerFamily(Len(QuerySeq)), period : Periods]
    /\ result = NoValue
    /\ Unused
    /\ NoTrigger

ApplyMetrics ==
    /\ pc = "call"
    /\ pc' = "return"
    /\ result' = _calculate_metrics(args.answers, args.period)
    /\ UNCHANGED <<thread, posts, core, call, today, report, previous_period, previous_metrics, hist, args>>

NextMetrics == ApplyMetrics

SpecMetrics == InitMetrics /\ [][NextMetrics]_vars

----------------------------------------------------------------------------
(* _generate_insights as a function of the report so far *)

\* the metric keys _generate_insights can meet, in _calculate_metrics' order
InsightKeys == <<"Daily Active Users", "Weekly Active Users",
                 "Bi-Weekly Active Users", "Monthly Active Users", "Active Users",
                 "New Signups", "Users Onboarded", "Receipts Uploaded",
                 "PlanetPoints Added", "Vouchers Redeemed">>

Reverse(s) == [i \in DOMAIN s |-> s[Len(s) + 1 - i]]

\* a metrics dict with the keys of S, each with a value of its own
MetricsOf(S) ==
    LET present == SelectSeq([i \in DOMAIN InsightKeys |-> [k |-> InsightKeys[i], v |-> i]],
                             LAMBDA e : e.k \in S)
    IN present

\* the previous-period values the comparisons are computed against
PreviousOf(metrics, mode) ==
    IF mode = "new" THEN <<>>
    ELSE [i \in DOMAIN metrics |->
            [k |-> metrics[i].k, v |-> IF i % 3 = 0 THEN metrics[i].v
                                       ELSE IF i % 3 = 1 THEN metrics[i].v + 1
                                       ELSE 1]]

SampleTopEvents == {<<>>,
                    <<[event |-> "Receipt Uploaded", count |-> 3],
                      [event |-> "Sign Up", count |-> 2]>>}

ReportsSoFar ==
    {[period |-> p,
      metrics |-> IF rev THEN Reverse(MetricsOf(S)) ELSE MetricsOf(S),
      comparisons |-> IF mode = "none" THEN <<>>
                      ELSE _compute_comparisons(MetricsOf(S),
                                                PreviousOf(MetricsOf(S), mode)),
      top_events |-> t] :
        p \in {"daily", "biweekly", "custom"},
        S \in SUBSET {InsightKeys[i] : i \in DOMAIN InsightKeys},
        rev \in BOOLEAN,
        mode \in {"none", "new", "mixed"},
        t \in SampleTopEvents}

InitInsights ==
    /\ pc = "call"
    /\ args \in ReportsSoFar
    /\ result = NoValue
    /\ Unused
    /\ NoTrigger

ApplyInsights ==
    /\ pc = "call"
    /\ pc' = "return"
    /\ result' = _generate_insights(args)
    /\ UNCHANGED <<thread, posts, core, call, today, report, previous_period, previous_metrics, hist, args>>

NextInsights == ApplyInsights

SpecInsights == InitInsights /\ [][NextInsights]_vars

----------------------------------------------------------------------------
(* _build_report_blocks as a function of the report it is handed *)

\* top_events as get_top_events ranks them: greatest count first
SampleRankings ==
    {<<>>,
     <<[event |-> "Sign Up", count |-> 4]>>,
     <<[event |-> "Receipt Uploaded", count |-> 9],
       [event |-> "Sign Up", count |-> 1]>>,
     <<[event |-> "Receipt Uploaded", count |-> 20],
       [event |-> "Sign Up", count |-> 7],
       [event |-> "unknown", count |-> 2]>>,
     <<[event |-> "Receipt Uploaded", count |-> 8],
       [event |-> "Sign Up", count |-> 8],
       [event |-> "User Onboarded", count |-> 5],
       [event |-> "Voucher Redeemed", count |-> 3],
       [event |-> "Referral Completed", count |-> 2],
       [event |-> "unknown", count |-> 1]>>}

SampleMetrics ==
    {<<>>,
     <<[k |-> "New Signups", v |-> 3]>>,
     <<[k |-> "Daily Active Users", v |-> 7], [k |-> "New Signups", v |-> 3],
       [k |-> "Receipts Uploaded", v |-> 5]>>}

SamplePrevious == <<[k |-> "New Signups", v |-> 3], [k |-> "Receipts Uploaded", v |-> 8]>>

SampleInsights ==
    {<<>>,
     <<FallbackInsight>>,
     <<[text |-> "bare", label |-> "New signups", value |-> 3],
       [text |-> "top_event", event |-> "Sign Up", count |-> 4]>>}

\* what send_to_slack and the custom-report trigger hand to the renderer
RenderCalls ==
    {[period |-> p, metrics |-> m,
      comparisons |-> IF compared THEN _compute_comparisons(m, SamplePrevious)
                      ELSE <<>>,
      top_events |-> t, insights |-> ins, mixpanel_url |-> url,
      from_date |-> w[1], to_date |-> w[2]] :
        p \in {"daily", "custom"}, m \in SampleMetrics, compared \in BOOLEAN,
        t \in SampleRankings, ins \in SampleInsights,
        url \in {"", MixpanelUrl},
        w \in {<<NoDate, NoDate>>, <<FirstDay - 1, FirstDay>>}}

InitRender ==
    /\ pc = "call"
    /\ args \in RenderCalls
    /\ result = NoValue
    /\ call = NoCall /\ today = FirstDay /\ report = NoReport
    /\ previous_period = NoPeriod /\ previous_metrics = <<>> /\ hist = NoHist
    /\ NoTrigger

ApplyRender ==
    /\ pc = "call"
    /\ pc' = "return"
    /\ result' = _build_report_blocks(args.period, args.metrics, args.top_events,
                                      args.insights, args.comparisons,
                                      args.mixpanel_url, args.from_date,
                                      args.to_date, today)
    /\ UNCHANGED <<thread, posts, core, call, today, report, previous_period, previous_metrics, hist, args>>

NextRender == ApplyRender

SpecRender == InitRender /\ [][NextRender]_vars

----------------------------------------------------------------------------
(* shared/slack_client.py and ReportGenerator.send_to_slack: delivery *)

\* What requests.post can do: answer with a status, or raise a
\* RequestException.
PostOutcomes == {[status |-> 200], [status |-> 204], [status |-> 500],
                 Raised("ConnectionError"), Raised("Timeout")}

\* A plausible slip: any 2xx status counts as delivered (response.ok).
SendResultAnySuccess(outcome) ==
    IF IsRaised(outcome) THEN FALSE ELSE outcome.status \div 100 = 2

\* send_message's return value, given what its one requests.post did
send_message(outcome) ==
    IF IsRaised(outcome) THEN FALSE ELSE outcome.status = 200

\* payload = {"text": text}; if blocks: payload["blocks"] = blocks
Payload(text, blocks) ==
    IF blocks # <<>> THEN [text |-> text, blocks |-> blocks] ELSE [text |-> text]

\* report.get(field, default)
ReportGet(rep, field, default) ==
    IF field \in DOMAIN rep THEN rep[field] ELSE default

\* send_to_slack and send_analytics_report: the payload handed to send_message
send_to_slack(rep, now) ==
    LET period == ReportGet(rep, "period", "daily")
    IN Payload(<<CompanyName, Capitalize(period), "Analytics Report">>,
               _build_report_blocks(period,
                                    ReportGet(rep, "metrics", <<>>),
                                    ReportGet(rep, "top_events", <<>>),
                                    ReportGet(rep, "insights", <<>>),
                                    ReportGet(rep, "comparisons", <<>>),
                                    ReportGet(rep, "mixpanel_url", ""),
                                    ReportGet(rep, "from_date", NoDate),
                                    ReportGet(rep, "to_date", NoDate),
                                    now))

\* the reports send_to_slack is handed: standard ones and a raw custom one
SentReports ==
    RenderCalls
    \cup {[type |-> "custom", from_date |-> NoDate, to_date |-> NoDate,
           events_analyzed |-> <<"Sign Up">>,
           results |-> <<[k |-> "Sign Up", v |-> [error |-> "ConnectionError"]]>>,
           generated_at |-> FirstDay]}

InitSend ==
    /\ pc = "call"
    /\ args \in SentReports
    /\ result = NoValue
    /\ call = NoCall /\ today = FirstDay /\ report = NoReport
    /\ previous_period = NoPeriod /\ previous_metrics = <<>> /\ hist = NoHist
    /\ NoTrigger

\* send_to_slack -> send_analytics_report -> send_message, up to the POST
SendToSlack ==
    /\ pc = "call"
    /\ pc' = "posting"
    /\ call' = [entry |-> "send_message", payload |-> send_to_slack(args, today)]
    /\ UNCHANGED <<thread, posts, core, today, report, previous_period,
                   previous_metrics, hist, args, result>>

\* requests.post(...) and the return of send_message
PostMessage ==
    /\ pc = "posting"
    /\ \E outcome \in PostOutcomes :
        /\ posts' = Append(posts, [to |-> "webhook", payload |-> call.payload,
                                   outcome |-> outcome])
        /\ result' = send_message(outcome)
    /\ pc' = "return"
    /\ UNCHANGED <<thread, core, call, today, report, previous_period,
                   previous_metrics, hist, args>>

NextSend == SendToSlack \/ PostMessage

SpecSend == InitSend /\ [][NextSend]_vars

----------------------------------------------------------------------------
(* generate_report and generate_custom_report, one step per stage *)

TopLimit == 10      \* _get_top_events asks for limit=10

\* days = 0 stands for days=None as well: both are falsy in "if days:".
\* events = <<>> stands for events=None as well.
Calls ==
    {[entry |-> "generate_report", period |-> p] : p \in Periods}
    \cup
    {[entry |-> "generate_custom_report", events |-> ev,
      from_date |-> w[1], to_date |-> w[2], days |-> d] :
        ev \in {<<>>, <<"Sign Up", "Item Tracked">>},
        w \in {<<NoDate, NoDate>>, <<FirstDay - 10, FirstDay - 4>>},
        d \in {0, 7}}

\* the branch generate_custom_report takes
CustomBranch(c) ==
    IF c.days # 0 THEN "days"
    ELSE IF c.events # <<>> THEN "events"
    ELSE "default"

\* whether the call ends in generate_report, and with which period
RunsGenerateReport(c) ==
    IF c.entry = "generate_report" THEN TRUE ELSE CustomBranch(c) # "events"

ReportPeriod(c) == IF c.entry = "generate_report" THEN c.period ELSE "custom"

\* the report dict generate_report starts from
ReportHeader(period, now) ==
    [period |-> period,
     from_date |-> get_date_range(period, now).from_date,
     to_date |-> get_date_range(period, now).to_date,
     generated_at |-> now,
     metrics |-> <<>>,
     top_events |-> <<>>,
     insights |-> <<>>,
     comparisons |-> <<>>,
     mixpanel_url |-> MixpanelUrl]

\* What self.mixpanel.get_top_events does: it raises, or returns a list.  The
\* last list is one a substitute collaborator could return: a record without
\* "count".
SampleExports ==
    {<<>>,
     <<[event |-> "Sign Up"]>>,
     <<[event |-> "Receipt Uploaded"], [event |-> "Sign Up"],
       [event |-> "Receipt Uploaded"]>>}

TopAnswers ==
    {RaiseResp}
    \cup {[returns |-> get_top_events(x, TopLimit)] : x \in SampleExports}
    \cup {[returns |-> <<[event |-> "Sign Up"]>>]}

\* _get_top_events: an exception of the collaborator becomes []
_get_top_events(answer) ==
    IF IsRaised(answer) THEN <<>> ELSE answer.returns

\* the candidate events the active-users loop queries before it leaves
RECURSIVE queried_events(_, _)
queried_events(answers, events) ==
    IF events = <<>> THEN <<>>
    ELSE LET data == answers[Query("unique", Head(events))]
         IN <<Head(events)>> \o
            (IF ~IsRaised(data) /\ HasValues(data) /\ Total(data) > 0
             THEN <<>>
             ELSE queried_events(answers, Tail(events)))

\* the queries one _calculate_metrics call issues
IssuedQueries(answers) ==
    LET q == queried_events(answers, ACTIVE_USER_EVENTS)
    IN {Query("unique", q[i]) : i \in DOMAIN q}
       \cup {Query("general", KEY_METRIC_EVENTS[i].v) : i \in DOMAIN KEY_METRIC_EVENTS}

\* a call that raised or returned an error value
Errored(resp) == IsRaised(resp) \/ "error" \in DOMAIN resp

AfterQueries(h, answers) ==
    [raised |-> h.raised \/ \E q \in IssuedQueries(answers) : IsRaised(answers[q]),
     all_errored |-> h.all_errored
                     /\ \A q \in IssuedQueries(answers) : Errored(answers[q]),
     unreadable |-> h.unreadable]

\* A plausible slip: the handler reports the error on an emptied report.
ExceptHandlerRestarts(rep, e) ==
    [pc |-> "done",
     report |-> [f \in DOMAIN rep \cup {"error"} |->
                    IF f = "error" THEN e
                    ELSE IF f = "insights"
                    THEN <<[text |-> "degraded", error |-> e]>>
                    ELSE IF f \in {"metrics", "top_events", "comparisons"}
                    THEN <<>>
                    ELSE rep[f]]]

\* A plausible slip: the handler lets the exception through.
ExceptHandlerPropagates(rep, e) == [pc |-> "crashed", report |-> rep]

\* except Exception as e: the error is recorded and one insight appended
ExceptHandler(rep, e) ==
    [pc |-> "done",
     report |-> [f \in DOMAIN rep \cup {"error"} |->
                    IF f = "error" THEN e
                    ELSE IF f = "insights"
                    THEN Append(rep.insights, [text |-> "degraded", error |-> e])
                    ELSE rep[f]]]

\* generate_report as a function of what the collaborator answers: the
\* stages of the try block in their order, then the except clause or the return
generate_report(period, now, top_answer, answers, previous_answers) ==
    LET ranked == [ReportHeader(period, now) EXCEPT
                      !.top_events = _get_top_events(top_answer)]
        counted == [ranked EXCEPT !.metrics = _calculate_metrics(answers, period)]
        previous == _calculate_metrics(previous_answers, period)
        compared == [counted EXCEPT
                        !.comparisons = _compute_comparisons(counted.metrics, previous)]
    IN IF TopEventRaises(compared.top_events)
       THEN ExceptHandler(compared, "KeyError").report
       ELSE [compared EXCEPT !.insights = _generate_insights(compared)]

\* the raw report of generate_custom_report for an event list
EventsReport(events, from_date, to_date, results, now) ==
    [type |-> "custom",
     from_date |-> from_date,
     to_date |-> to_date,
     events_analyzed |-> events,
     results |-> results,
     generated_at |-> now]

Init ==
    /\ pc = "idle"
    /\ call \in Calls
    /\ today = FirstDay
    /\ report = NoReport
    /\ previous_period = NoPeriod
    /\ previous_metrics = <<>>
    /\ hist = [raised |-> FALSE, all_errored |-> TRUE, unreadable |-> FALSE]
    /\ args = NoArgs
    /\ result = NoValue
    /\ NoTrigger

\* A plausible slip: the ranking of the top events moved behind the comparisons.
StageAfterRankLate(stage) ==
    CASE stage = "idle" -> "metrics"
      [] stage = "metrics" -> "previous"
      [] stage = "previous" -> "compare"
      [] stage = "compare" -> "top_events"
      [] stage = "top_events" -> "insights"
      [] stage = "insights" -> "done"

\* the statement that follows each statement of generate_report
StageAfter(stage) ==
    CASE stage = "idle" -> "top_events"
      [] stage = "top_events" -> "metrics"
      [] stage = "metrics" -> "previous"
      [] stage = "previous" -> "compare"
      [] stage = "compare" -> "insights"
      [] stage = "insights" -> "done"

\* generate_report up to the try: both windows and the empty report
StartReport ==
    /\ pc = "idle"
    /\ RunsGenerateReport(call)
    /\ pc' = StageAfter("idle")
    /\ report' = ReportHeader(ReportPeriod(call), today)
    /\ previous_period' = _get_previous_period_dates(ReportPeriod(call), today)
    /\ UNCHANGED <<thread, posts, core, call, today, previous_metrics, hist, args, result>>

\* report["top_events"] = self._get_top_events(from_date, to_date)
GetTopEvents ==
    /\ pc = "top_events"
    /\ \E answer \in TopAnswers :
        /\ report' = [report EXCEPT !.top_events = _get_top_events(answer)]
        /\ hist' = [raised |-> hist.raised \/ IsRaised(answer),
                    all_errored |-> hist.all_errored /\ IsRaised(answer),
                    unreadable |-> TopEventRaises(_get_top_events(answer))]
    /\ pc' = StageAfter("top_events")
    /\ UNCHANGED <<thread, posts, core, call, today, previous_period, previous_metrics, args, result>>

\* report["metrics"] = self._calculate_metrics(from_date, to_date, period)
CalcCurrentMetrics ==
    /\ pc = "metrics"
    /\ \E answers \in AnswerFamily(MaxLive) :
        /\ report' = [report EXCEPT
                        !.metrics = _calculate_metrics(answers, report.period)]
        /\ hist' = AfterQueries(hist, answers)
    /\ pc' = StageAfter("metrics")
    /\ UNCHANGED <<thread, posts, core, call, today, previous_period, previous_metrics, args, result>>

\* previous_metrics = self._calculate_metrics(prev_from, prev_to, period)
CalcPreviousMetrics ==
    /\ pc = "previous"
    /\ \E answers \in AnswerFamily(MaxLive) :
        /\ previous_metrics' = _calculate_metrics(answers, report.period)
        /\ hist' = AfterQueries(hist, answers)
    /\ pc' = StageAfter("previous")
    /\ UNCHANGED <<thread, posts, core, call, today, report, previous_period, args, result>>

\* report["comparisons"] = self._compute_comparisons(...)
ComputeComparisons ==
    /\ pc = "compare"
    /\ report' = [report EXCEPT
                    !.comparisons = _compute_comparisons(report.metrics,
                                                         previous_metrics)]
    /\ pc' = StageAfter("compare")
    /\ UNCHANGED <<thread, posts, core, call, today, previous_period, previous_metrics, hist, args, result>>

\* report["insights"] = self._generate_insights(report), the except clause, return
GenerateInsights ==
    /\ pc = "insights"
    /\ IF TopEventRaises(report.top_events)
       THEN /\ pc' = ExceptHandler(report, "KeyError").pc
            /\ report' = ExceptHandler(report, "KeyError").report
       ELSE /\ pc' = StageAfter("insights")
            /\ report' = [report EXCEPT !.insights = _generate_insights(report)]
    /\ UNCHANGED <<thread, posts, core, call, today, previous_period, previous_metrics, hist, args, result>>

\* the loop of generate_custom_report over an explicit event list
RECURSIVE EventResults(_, _, _)
EventResults(events, answers, results) ==
    IF events = <<>> THEN results
    ELSE LET data == answers[Head(events)]
         IN EventResults(Tail(events), answers,
                         DictSet(results, Head(events),
                                 IF IsRaised(data) THEN [error |-> data.raised]
                                 ELSE data))

EventResponses == {RaiseResp, ErrorBody, NoneBody, OkBody(OkShapes[1])}

\* generate_custom_report with events and without days: the raw report
CustomEventsReport ==
    /\ pc = "idle"
    /\ ~RunsGenerateReport(call)
    /\ \E answers \in [{call.events[i] : i \in DOMAIN call.events} -> EventResponses] :
        /\ report' = EventsReport(call.events, call.from_date, call.to_date,
                                   EventResults(call.events, answers, <<>>), today)
        /\ hist' = [raised |-> \E e \in DOMAIN answers : IsRaised(answers[e]),
                    all_errored |-> \A e \in DOMAIN answers : Errored(answers[e]),
                    unreadable |-> FALSE]
    /\ pc' = "done"
    /\ UNCHANGED <<thread, posts, core, call, today, previous_period, previous_metrics, args, result>>

Next ==
    \/ StartReport
    \/ GetTopEvents
    \/ CalcCurrentMetrics
    \/ CalcPreviousMetrics
    \/ ComputeComparisons
    \/ GenerateInsights
    \/ CustomEventsReport

Spec == Init /\ [][Next]_vars

----------------------------------------------------------------------------
(* _format_metric_insight as a function of a metric and what it is compared to *)

\* A metric value is a nonzero total; compared says whether comparisons holds
\* an entry for the metric, the one _compute_comparisons made against previous.
InitFormat ==
    /\ pc = "call"
    /\ args \in [label : {"New signups", "Daily Active Users"},
                 current : 1..MaxVal, previous : 0..MaxVal,
                 compared : BOOLEAN, period : Periods]
    /\ result = NoValue
    /\ Unused
    /\ NoTrigger

ApplyFormat ==
    /\ pc = "call"
    /\ pc' = "return"
    /\ result' = _format_metric_insight(
                    args.label, args.current,
                    IF args.compared
                    THEN _calculate_change(args.current, args.previous)
                    ELSE NoComparison,
                    period_label(args.period))
    /\ UNCHANGED <<thread, posts, core, call, today, report, previous_period, previous_metrics, hist, args>>

NextFormat == ApplyFormat

SpecFormat == InitFormat /\ [][NextFormat]_vars

----------------------------------------------------------------------------
(* SlackCommand/__init__.py and CustomReport/__init__.py: the triggers *)

\* command_text.split(): the first word is a string, every later word is the
\* sequence of its characters, which is what isdigit() and int() look at.
\* "sup2" is the character SUPERSCRIPT TWO: a digit to isdigit(), not to int().

Digits == <<"0", "1", "2", "3", "4", "5", "6", "7", "8", "9">>

\* str.isdigit()
isdigit(chars) ==
    /\ chars # <<>>
    /\ \A i \in DOMAIN chars :
        chars[i] = "sup2" \/ \E d \in DOMAIN Digits : Digits[d] = chars[i]

\* int(str) raises ValueError on a character that is not a decimal digit
int_raises(chars) == \E i \in DOMAIN chars : chars[i] = "sup2"

\* int(str), for a string of decimal digits
RECURSIVE int(_, _)
int(chars, acc) ==
    IF chars = <<>> THEN acc
    ELSE int(Tail(chars),
             10 * acc + (CHOOSE d \in DOMAIN Digits : Digits[d] = Head(chars)) - 1)

\* str.lower(), for the first words of the model
lower(word) ==
    IF word = "Daily" THEN "daily"
    ELSE IF word = "HELP" THEN "help"
    ELSE word

\* create_response: the status is 200 for an error too
create_response(message, is_error) ==
    [status_code |-> 200, text |-> message, is_error |-> is_error]

create_help_response == [status_code |-> 200, blocks |-> "Analytics Bot Commands"]

\* the period_labels table of the acknowledgment
AckLabel(action, days) ==
    IF action = "daily" THEN "Daily"
    ELSE IF action = "weekly" THEN "Weekly"
    ELSE IF action = "biweekly" THEN "Bi-weekly"
    ELSE IF action = "monthly" THEN "Monthly"
    ELSE [last_days |-> days]

Acknowledgment(action, days) ==
    [status_code |-> 200, text |-> <<"Generating", AckLabel(action, days), "report">>]

\* main of SlackCommand up to "Start background processing": the response
\* it returns early, or the action and days it goes on with.  days = 0 is
\* days = None.
slash_validate(parts) ==
    LET action == IF parts # <<>> THEN lower(parts[1]) ELSE "help"
    IN IF action \in {"help", ""}
       THEN [returns |-> create_help_response]
       ELSE IF action \notin {"daily", "weekly", "biweekly", "monthly", "custom"}
       THEN [returns |-> create_response(<<"Unknown command", action>>, TRUE)]
       ELSE IF action # "custom"
       THEN [action |-> action, days |-> 0]
       ELSE IF (IF Len(parts) > 1 THEN isdigit(parts[2]) ELSE FALSE)
       THEN LET days == int(parts[2], 0)
            IN IF int_raises(parts[2])
               THEN [returns |-> create_response(<<"Something went wrong",
                                                   "ValueError">>, TRUE)]
               ELSE IF days < 1 \/ days > 90
               THEN [returns |-> create_response(
                                    "Please specify between 1 and 90 days.", TRUE)]
               ELSE [action |-> action, days |-> days]
       ELSE [returns |-> create_response("Usage: /analytics custom <days>", TRUE)]

\* A plausible slip: the target is run in the caller (thread.run()).
RunInCaller(period, days, response_url) ==
    [mode |-> "caller", at |-> "start", period |-> period, days |-> days,
     response_url |-> response_url]

\* threading.Thread(target=generate_report_async, args=...).start()
thread_start(period, days, response_url) ==
    [mode |-> "thread", at |-> "start", period |-> period, days |-> days,
     response_url |-> response_url]

ThreadOver == {"finished", "failed"}

\* code run in the caller holds the caller up until it is over
HoldsCaller(th) ==
    IF th = NoThread THEN FALSE
    ELSE th.mode = "caller" /\ th.at \notin ThreadOver

\* the call generate_report_async makes on the generator, or none
AsyncCall(period, days) ==
    IF period \in {"daily", "weekly", "biweekly", "monthly"}
    THEN <<[method |-> "generate_report", period |-> period]>>
    ELSE IF period = "custom" /\ days # 0
    THEN <<[method |-> "generate_custom_report", days |-> days]>>
    ELSE <<>>

Construct == [method |-> "ReportGenerator"]

\* send_to_response_url: one POST, every exception swallowed
ResponseUrlPost(url, message, is_error, outcome) ==
    [to |-> url, text |-> message, is_error |-> is_error, outcome |-> outcome]

\* A plausible slip: only a bad status is swallowed, a failed POST raises.
SendToResponseUrlRaises(outcome) ==
    IF IsRaised(outcome) THEN "raised" ELSE "returned"

\* send_to_response_url: whatever the POST does, the function returns
send_to_response_url(outcome) == "returned"

SlashTexts ==
    {<<>>, <<"help">>, <<"HELP">>, <<"daily">>, <<"Daily">>, <<"weekly">>,
     <<"biweekly">>, <<"monthly">>, <<"yearly">>, <<"custom">>,
     <<"daily", <<"7">>>>,
     <<"custom", <<"7">>>>, <<"custom", <<"0">>>>, <<"custom", <<"0", "7">>>>,
     <<"custom", <<"9", "0">>>>, <<"custom", <<"9", "1">>>>,
     <<"custom", <<"x">>>>, <<"custom", <<"-", "5">>>>,
     <<"custom", <<"sup2">>>>}

\* response_url = "" is a request without one
SlashRequests ==
    {[entry |-> "SlackCommand", parts |-> t, response_url |-> u] :
        t \in SlashTexts, u \in {"", "https://hooks.slack.com/commands/1"}}

\* from_date = to_date = NoDate and events = "" are parameters not given
HttpRequests ==
    {[entry |-> "CustomReport", period |-> p, from_date |-> w[1],
      to_date |-> w[2], events |-> ev, send_slack |-> snd] :
        p \in Periods,
        w \in {<<NoDate, NoDate>>, <<FirstDay - 10, FirstDay - 4>>},
        ev \in {"", "Sign Up,Item Tracked"},
        snd \in BOOLEAN}

\* the call main of CustomReport makes on the generator
HttpCall(req) ==
    IF req.from_date # NoDate /\ req.to_date # NoDate
    THEN IF req.events # ""
         THEN [method |-> "generate_custom_report", events |-> req.events,
               from_date |-> req.from_date, to_date |-> req.to_date]
         ELSE [method |-> "_get_top_events",
               from_date |-> req.from_date, to_date |-> req.to_date]
    ELSE [method |-> "generate_report", period |-> req.period]

InitTriggers ==
    /\ pc = "received"
    /\ call \in SlashRequests \cup HttpRequests
    /\ today = FirstDay
    /\ report = NoReport
    /\ previous_period = NoPeriod /\ previous_metrics = <<>> /\ hist = NoHist
    /\ args = NoArgs
    /\ result = NoValue
    /\ NoTrigger

\* main of SlackCommand up to thread.start()
SlashValidate ==
    /\ pc = "received"
    /\ call.entry = "SlackCommand"
    /\ LET v == slash_validate(call.parts)
       IN IF "returns" \in DOMAIN v
          THEN /\ pc' = "done"
               /\ result' = v.returns
               /\ UNCHANGED <<thread, args>>
          ELSE /\ pc' = "started"
               /\ args' = v
               /\ thread' = IF call.response_url # ""
                            THEN thread_start(v.action, v.days, call.response_url)
                            ELSE NoThread
               /\ UNCHANGED result
    /\ UNCHANGED <<posts, core, call, today, report, previous_period,
                   previous_metrics, hist>>

\* main of SlackCommand: the acknowledgment is returned
SlashAck ==
    /\ pc = "started"
    /\ ~HoldsCaller(thread)
    /\ pc' = "done"
    /\ result' = Acknowledgment(args.action, args.days)
    /\ UNCHANGED <<thread, posts, core, call, today, report, previous_period,
                   previous_metrics, hist, args>>

\* generate_report_async: the generator is built and the report generated,
\* or one of the two raises, or the period is not one it knows
ThreadGenerate ==
    /\ thread # NoThread
    /\ thread.at = "start"
    /\ \E built \in BOOLEAN :
        IF ~built
        THEN /\ core' = Append(core, Construct)
             /\ thread' = [thread EXCEPT !.at = "failing"]
             /\ posts' = posts
        ELSE IF AsyncCall(thread.period, thread.days) = <<>>
        THEN /\ core' = Append(core, Construct)
             /\ \E outcome \in PostOutcomes :
                  /\ posts' = Append(posts, ResponseUrlPost(thread.response_url,
                                         "Invalid report period.", TRUE, outcome))
                  /\ thread' = [thread EXCEPT !.at =
                                   IF send_to_response_url(outcome) = "raised"
                                   THEN "failing" ELSE "finished"]
        ELSE /\ core' = core \o <<Construct>> \o AsyncCall(thread.period, thread.days)
             /\ thread' = [thread EXCEPT !.at = "generated"]
             /\ posts' = posts
    /\ UNCHANGED <<pc, call, today, report, previous_period, previous_metrics,
                   hist, args, result>>

\* generator.send_to_slack(report): SlackClient() raises, or the one POST is made
ThreadSend ==
    /\ thread # NoThread
    /\ thread.at = "generated"
    /\ \/ /\ thread' = [thread EXCEPT !.at = "failing"]
          /\ posts' = posts
       \/ \E outcome \in PostOutcomes :
            /\ posts' = Append(posts, [to |-> "webhook", outcome |-> outcome])
            /\ thread' = [thread EXCEPT !.at = "sent"]
    /\ UNCHANGED <<pc, core, call, today, report, previous_period,
                   previous_metrics, hist, args, result>>

\* the confirmation goes to response_url; an exception of the call would
\* reach the except clause
ThreadConfirm ==
    /\ thread # NoThread
    /\ thread.at = "sent"
    /\ \E outcome \in PostOutcomes :
        /\ posts' = Append(posts, ResponseUrlPost(thread.response_url,
                                       "report generated", FALSE, outcome))
        /\ thread' = [thread EXCEPT !.at =
                         IF send_to_response_url(outcome) = "raised"
                         THEN "failing" ELSE "finished"]
    /\ UNCHANGED <<pc, core, call, today, report, previous_period,
                   previous_metrics, hist, args, result>>

\* except Exception: the failure goes to response_url; an exception of the
\* call would leave the thread
ThreadFail ==
    /\ thread # NoThread
    /\ thread.at = "failing"
    /\ \E outcome \in PostOutcomes :
        /\ posts' = Append(posts, ResponseUrlPost(thread.response_url,
                                       "Failed to generate report", TRUE, outcome))
        /\ thread' = [thread EXCEPT !.at =
                         IF send_to_response_url(outcome) = "raised"
                         THEN "crashed" ELSE "failed"]
    /\ UNCHANGED <<pc, core, call, today, report, previous_period,
                   previous_metrics, hist, args, result>>

\* events_param.split(',') with each part stripped, for the lists of the model
SplitEvents(events_param) ==
    IF events_param = "Sign Up,Item Tracked" THEN <<"Sign Up", "Item Tracked">>
    ELSE <<events_param>>

\* what the collaborator answers to the queries of one window, in HttpMain
HttpAnswers ==
    {Answers({}, FailMixes[1], 0),
     Answers({Query("general", "Sign Up")}, FailMixes[2], 2)}

\* the report main of CustomReport has in hand before it is sent to Slack
HttpReports(req, now) ==
    IF req.from_date # NoDate /\ req.to_date # NoDate
    THEN IF req.events # ""
         THEN {EventsReport(SplitEvents(req.events), req.from_date, req.to_date,
                            EventResults(SplitEvents(req.events), answers, <<>>), now) :
                 answers \in [{SplitEvents(req.events)[i] :
                                 i \in DOMAIN SplitEvents(req.events)}
                              -> {RaiseResp, OkBody(OkShapes[1])}]}
         ELSE {[period |-> "custom",
                from_date |-> req.from_date,
                to_date |-> req.to_date,
                generated_at |-> now,
                metrics |-> <<>>,
                top_events |-> _get_top_events(top),
                insights |-> <<[text |-> "custom_date_range"]>>] :
                 top \in TopAnswers}
    ELSE {generate_report(req.period, now, top, answers, previous) :
            top \in TopAnswers, answers \in HttpAnswers, previous \in HttpAnswers}

\* report[field] = value
WithField(rep, field, value) ==
    [f \in DOMAIN rep \cup {field} |-> IF f = field THEN value ELSE rep[f]]

\* main of CustomReport: the generator is built and called whatever the
\* parameters are; the report goes to Slack when asked; the handler answers
\* 200 with the report and slack_sent, or 500 when the generator could not
\* be built
HttpMain ==
    /\ pc = "received"
    /\ call.entry = "CustomReport"
    /\ \E built \in BOOLEAN :
        IF ~built
        THEN /\ core' = <<Construct>>
             /\ posts' = posts
             /\ result' = [status_code |-> 500,
                           message |-> "Failed to generate report"]
        ELSE /\ core' = <<Construct, HttpCall(call)>>
             /\ \E rep \in HttpReports(call, today),
                   delivery \in PostOutcomes \cup {Raised("ValueError")} :
                 LET raised == call.send_slack /\ delivery = Raised("ValueError")
                     posted == call.send_slack /\ ~raised
                     slack_sent == IF posted THEN send_message(delivery) ELSE FALSE
                     body == IF raised
                             THEN WithField(rep, "slack_error", "ValueError")
                             ELSE rep
                 IN /\ posts' = IF posted
                                THEN <<[to |-> "webhook", outcome |-> delivery]>>
                                ELSE posts
                    /\ result' = [status_code |-> 200,
                                  body |-> WithField(body, "slack_sent", slack_sent)]
    /\ pc' = "done"
    /\ UNCHANGED <<thread, call, today, report, previous_period,
                   previous_metrics, hist, args>>

NextTriggers ==
    \/ SlashValidate
    \/ SlashAck
    \/ ThreadGenerate
    \/ ThreadSend
    \/ ThreadConfirm
    \/ ThreadFail
    \/ HttpMain

SpecTriggers == InitTriggers /\ [][NextTriggers]_vars

\* A started thread runs on: each of its steps is one blocking call with a
\* timeout (10 s to Slack, 30 s and 60 s to Mixpanel), so no step waits forever.
SpecTriggersFair ==
    /\ SpecTriggers
    /\ WF_vars(ThreadGenerate)
    /\ WF_vars(ThreadSend)
    /\ WF_vars(ThreadConfirm)
    /\ WF_vars(ThreadFail)

----------------------------------------------------------------------------
(* BiWeeklyReport/__init__.py: the timer that fires every Monday *)

\* In this part a date is the number of days since Monday 2018-01-01.

EpochYear == 2018   \* the year of day 0, a year that starts on a Monday

IsLeap(y) == (y % 4 = 0 /\ y % 100 # 0) \/ y % 400 = 0

DaysInYear(y) == IF IsLeap(y) THEN 366 ELSE 365

\* the day number of 1 January of year y
RECURSIVE YearStart(_)
YearStart(y) ==
    IF y = EpochYear THEN 0 ELSE YearStart(y - 1) + DaysInYear(y - 1)

\* date.weekday(): 0 is Monday
weekday(d) == d % 7

\* the Monday of ISO week 1 of year y: the week that holds 4 January
Week1Monday(y) ==
    LET jan4 == YearStart(y) + 3
    IN jan4 - weekday(jan4)

\* the ISO year of a date: the year whose week 1 starts last before it
RECURSIVE IsoYear(_, _)
IsoYear(d, y) == IF d < Week1Monday(y + 1) THEN y ELSE IsoYear(d, y + 1)

\* date.isocalendar()[1]
isoweek(d) == (d - Week1Monday(IsoYear(d, EpochYear))) \div 7 + 1

\* is_biweekly_monday
is_biweekly_monday(now) == isoweek(now) % 2 = 0

InitBiWeekly ==
    /\ pc = "timer"
    /\ today = 0
    /\ hist = [last_run |-> NoDate, gap |-> 0]
    /\ call = NoCall /\ report = NoReport
    /\ previous_period = NoPeriod /\ previous_metrics = <<>>
    /\ args = NoArgs
    /\ result = NoValue
    /\ NoTrigger

\* main on an odd week: the function returns at once; the timer's next
\* firing is a week later
BiWeeklySkip ==
    /\ today < 7 * MaxMondays
    /\ ~is_biweekly_monday(today)
    /\ today' = today + 7
    /\ result' = "skipped"
    /\ core' = <<>>
    /\ posts' = <<>>
    /\ UNCHANGED <<pc, call, report, previous_period, previous_metrics, hist,
                   args, thread>>

\* main on an even week: the report is generated and sent; when a client
\* cannot be built the error is notified and raised again
BiWeeklyRun ==
    /\ today < 7 * MaxMondays
    /\ is_biweekly_monday(today)
    /\ \E built \in BOOLEAN, outcome \in PostOutcomes :
        IF built
        THEN /\ core' = <<Construct, [method |-> "generate_report",
                                      period |-> "biweekly"]>>
             /\ posts' = <<[to |-> "webhook", outcome |-> outcome]>>
             /\ result' = send_message(outcome)
        ELSE /\ core' = <<Construct>>
             /\ posts' = <<>>
             /\ result' = Raised("ValueError")
    /\ hist' = [last_run |-> today,
                gap |-> IF hist.last_run = NoDate THEN 0 ELSE today - hist.last_run]
    /\ today' = today + 7
    /\ UNCHANGED <<pc, call, report, previous_period, previous_metrics, args,
                   thread>>

NextBiWeekly == BiWeeklySkip \/ BiWeeklyRun

SpecBiWeekly == InitBiWeekly /\ [][NextBiWeekly]_vars

----------------------------------------------------------------------------
(* Properties *)

ReportFields == {"period", "from_date", "to_date", "generated_at", "metrics",
                 "top_events", "insights", "comparisons", "mixpanel_url"}

\* the states of a call that runs generate_report, once the report dict exists
InGenerateReport == pc # "idle" /\ RunsGenerateReport(call)

Returned == pc = "done" /\ RunsGenerateReport(call)

\* C1: whatever each call of the analytics collaborator does (data, an error
\* value, nothing, an exception), generate_report goes on to its return and
\* returns a report document; no exception leaves it.
C1_NeverPropagates ==
    /\ pc # "crashed"
    /\ (pc # "done" => ENABLED Next)
    /\ (Returned => ReportFields \subseteq DOMAIN report)

\* a run in which a collaborator call raised and the except clause ran
C1_Witness ==
    Returned /\ hist.raised /\ hist.unreadable /\ "error" \in DOMAIN report

\* C2: when every call of the collaborator raised or returned an error value,
\* the returned report has "error" set, no metrics and at least one insight.
C2_AllErrorsSetError ==
    (Returned /\ hist.all_errored)
        => /\ "error" \in DOMAIN report
           /\ report.metrics = <<>>
           /\ Len(report.insights) >= 1

\* the totals of OkShapes, summed by hand
ShapeTotals == <<7, 0, 3>>

\* the total a key-metric query answered with, 0 when it failed or was empty
AnsweredTotal(resp) ==
    IF \E j \in DOMAIN OkShapes : resp = OkBody(OkShapes[j])
    THEN ShapeTotals[CHOOSE j \in DOMAIN OkShapes : resp = OkBody(OkShapes[j])]
    ELSE 0

\* C3: _calculate_metrics holds a key metric exactly when its own query came
\* back with a nonzero total, with that total as its value, whatever the other
\* queries did; a metric whose query raised, returned an error value or came
\* back empty has no entry, not even a zero one.
C3_PerMetricIsolation ==
    pc = "return" =>
        /\ \A i \in DOMAIN KEY_METRIC_EVENTS :
            LET name == KEY_METRIC_EVENTS[i].k
                total == AnsweredTotal(
                            args.answers[Query("general", KEY_METRIC_EVENTS[i].v)])
            IN /\ DictHas(result, name) <=> total > 0
               /\ DictHas(result, name) => DictGet(result, name, 0) = total
        /\ \A i \in DOMAIN result : result[i].v > 0
        /\ \A i, j \in DOMAIN result : result[i].k = result[j].k => i = j
        /\ DictKeys(result) \subseteq
             {KEY_METRIC_EVENTS[i].k : i \in DOMAIN KEY_METRIC_EVENTS}
             \cup {user_metric_name(args.period)}

\* every query raises except the one for Receipt Uploaded, which sums to 7
C3_Witness ==
    /\ pc = "return"
    /\ \A q \in Queries : q.event # "Receipt Uploaded" => IsRaised(args.answers[q])
    /\ result = <<[k |-> "Receipts Uploaded", v |-> 7]>>

\* C4: _calculate_change(current, previous): previous = 0 and current > 0 is
\* 100% up and new; 0 against 0 is 0% flat; otherwise the percent is the
\* change relative to previous, rounded to one decimal, without its sign, the
\* direction is up, down or flat as current is above, below or equal to
\* previous, and is_new is false.  The percent is never negative.
C4_ChangeMatchesReference ==
    pc = "return" =>
        LET c == args.current
            p == args.previous
            exact == Abs(c - p) * 1000    \* p * (the change in tenths of a percent)
        IN /\ result.percent >= 0
           /\ (p = 0 /\ c > 0) =>
                /\ result.percent = 1000
                /\ result.direction = "up"
                /\ result.is_new
           /\ (p = 0 /\ c = 0) =>
                /\ result.percent = 0
                /\ result.direction = "flat"
                /\ ~result.is_new
           /\ p > 0 =>
                /\ 2 * Abs(result.percent * p - exact) <= p
                /\ 2 * Abs(result.percent * p - exact) = p => result.percent % 2 = 0
                /\ result.direction = (IF c > p THEN "up"
                                       ELSE IF c < p THEN "down" ELSE "flat")
                /\ ~result.is_new

\* 17 against 16 is 6.25%, reported as 6.2% up
C4_Witness ==
    /\ pc = "return"
    /\ args = [current |-> 17, previous |-> 16]
    /\ result.percent = 62
    /\ result.direction = "up"

\* C5: the current window does not end before it starts, and the previous
\* window has as many days, ends the day before the current one starts and
\* shares no day with it, for every period name.
C5_PreviousWindowAdjacent ==
    InGenerateReport =>
        /\ report.to_date >= report.from_date
        /\ previous_period.to_date - previous_period.from_date
             = report.to_date - report.from_date
        /\ previous_period.to_date = report.from_date - 1
        /\ previous_period.to_date < report.from_date

\* the fixed lookback of a period name, as the claim lists it
NamedLookback(period) ==
    CASE period = "weekly" -> 7
      [] period = "biweekly" -> 14
      [] period = "monthly" -> 30
      [] OTHER -> 1

\* C6: the report covers the explicit from_date/to_date pair when one is
\* given, else the days=N days ending today, else the lookback of the period
\* name (1 day for a name that is not recognized).  (An event-list call with
\* neither dates nor days resolves no window and is left out.)
C6_WindowPrecedence ==
    (("from_date" \in DOMAIN report)
        /\ (IF RunsGenerateReport(call) THEN TRUE ELSE call.from_date # NoDate))
    =>
        LET window == <<report.from_date, report.to_date>>
        IN IF call.entry = "generate_report"
           THEN window = <<today - NamedLookback(call.period), today>>
           ELSE IF call.from_date # NoDate /\ call.to_date # NoDate
           THEN window = <<call.from_date, call.to_date>>
           ELSE IF call.days # 0
           THEN window = <<today - call.days, today>>
           ELSE window = <<today - NamedLookback("custom"), today>>

\* C7: get_top_events returns one entry per distinct event name with its
\* number of occurrences, greatest count first, equal counts in the order the
\* names first occur in the input, cut to the first limit entries; no input
\* gives the empty list.
C7_TopEventsRanked ==
    pc = "return" =>
        LET events == args.events
            Names == {EventName(events[i]) : i \in DOMAIN events}
            Count(n) == Cardinality({i \in DOMAIN events : EventName(events[i]) = n})
            First(n) == CHOOSE i \in DOMAIN events :
                            /\ EventName(events[i]) = n
                            /\ \A j \in 1..(i - 1) : EventName(events[j]) # n
            Before(a, b) == \/ Count(a) > Count(b)
                            \/ Count(a) = Count(b) /\ First(a) < First(b)
        IN /\ Len(result) = Min(args.limit, Cardinality(Names))
           /\ \A i \in DOMAIN result :
                /\ result[i].event \in Names
                /\ result[i].count = Count(result[i].event)
           /\ \A i, j \in DOMAIN result :
                i < j => Before(result[i].event, result[j].event)
           /\ \A n \in Names :
                (\A i \in DOMAIN result : result[i].event # n)
                    => \A i \in DOMAIN result : Before(result[i].event, n)
           /\ events = <<>> => result = <<>>

\* two names tie at 2, the one seen first comes first, the third name is cut
C7_Witness ==
    /\ pc = "return"
    /\ args.limit = 2
    /\ args.events = <<[event |-> "Receipt Uploaded"], [event |-> "Sign Up"],
                       [properties |-> "p"], [event |-> "Sign Up"],
                       [event |-> "Receipt Uploaded"]>>
    /\ result = <<[event |-> "Receipt Uploaded", count |-> 2],
                  [event |-> "Sign Up", count |-> 2]>>

\* C8: _generate_insights never returns an empty list; with no metrics and no
\* top events it returns the fallback insight alone; and the fallback insight
\* is never accompanied by another insight.
C8_InsightsNeverEmpty ==
    pc = "return" =>
        /\ Len(result) >= 1
        /\ (args.metrics = <<>> /\ args.top_events = <<>>)
             => result = <<[text |-> "fallback"]>>
        /\ (\E i \in DOMAIN result : result[i] = [text |-> "fallback"])
             => Len(result) = 1

\* nothing to report on: the fallback insight alone
C8_Witness ==
    /\ pc = "return"
    /\ args.metrics = <<>>
    /\ args.top_events = <<>>
    /\ result = <<[text |-> "fallback"]>>

HeadlineKeys == <<"New Signups", "Users Onboarded", "Receipts Uploaded",
                  "Vouchers Redeemed">>

HeadlineLabel(key) ==
    CASE key = "New Signups" -> "New signups"
      [] key = "Users Onboarded" -> "Users onboarded"
      [] key = "Receipts Uploaded" -> "Receipts uploaded"
      [] key = "Vouchers Redeemed" -> "Vouchers redeemed"

PeriodActiveKeys == {"Daily Active Users", "Weekly Active Users",
                     "Monthly Active Users", "Bi-Weekly Active Users"}

\* C9: the insights are, in this order and whatever the values and the order
\* of the keys in metrics: one insight for each of New Signups, Users
\* Onboarded, Receipts Uploaded, Vouchers Redeemed that is a key of metrics,
\* then the active-users insight, then, when there are top events, the insight
\* naming top_events[0] and its count.
C9_InsightOrderFixed ==
    pc = "return" =>
        LET keys == DictKeys(args.metrics)
            present == SelectSeq(HeadlineKeys, LAMBDA k : k \in keys)
            n == Len(present)
            a == IF keys \cap PeriodActiveKeys # {} THEN 1 ELSE 0
            t == IF args.top_events # <<>> THEN 1 ELSE 0
        IN n + a + t > 0 =>
            /\ Len(result) = n + a + t
            /\ \A i \in 1..n :
                /\ "label" \in DOMAIN result[i]
                /\ result[i].label = HeadlineLabel(present[i])
                /\ result[i].value = DictGet(args.metrics, present[i], 0)
            /\ a = 1 =>
                /\ "label" \in DOMAIN result[n + 1]
                /\ result[n + 1].label \in keys \cap PeriodActiveKeys
                /\ result[n + 1].value
                     = DictGet(args.metrics, result[n + 1].label, 0)
            /\ t = 1 =>
                result[n + a + 1] = [text |-> "top_event",
                                     event |-> args.top_events[1].event,
                                     count |-> args.top_events[1].count]

\* metrics iterates Vouchers Redeemed, New Signups, Daily Active Users; the
\* insights are New signups, Vouchers redeemed, Daily Active Users, top event
C9_Witness ==
    /\ pc = "return"
    /\ DictKeys(args.metrics)
         = {"Vouchers Redeemed", "New Signups", "Daily Active Users"}
    /\ args.metrics[1].k = "Vouchers Redeemed"
    /\ args.top_events # <<>>
    /\ Len(result) = 4
    /\ result[1].label = "New signups"
    /\ result[2].label = "Vouchers redeemed"
    /\ result[3].label = "Daily Active Users"
    /\ result[4].text = "top_event"

ActiveUserNames == PeriodActiveKeys \cup {"Active Users"}

\* the insights about an active-users metric
ActiveUserInsights(insights) ==
    {i \in DOMAIN insights :
        IF "label" \in DOMAIN insights[i]
        THEN insights[i].label \in ActiveUserNames ELSE FALSE}

\* C10: a returned report whose metrics hold an active-users metric, for any
\* period, has exactly one active-users insight, and it is about that metric.
C10_OneActiveUsersInsight ==
    (Returned /\ "error" \notin DOMAIN report
        /\ DictKeys(report.metrics) \cap ActiveUserNames # {})
        => /\ Cardinality(ActiveUserInsights(report.insights)) = 1
           /\ \A i \in ActiveUserInsights(report.insights) :
                report.insights[i].label \in DictKeys(report.metrics)

\* the noun "new this ..." is followed by
PeriodNoun(period) ==
    CASE period = "daily" -> "day"
      [] period = "weekly" -> "week"
      [] period = "biweekly" -> "two weeks"
      [] period = "monthly" -> "month"
      [] OTHER -> "period"

\* C11: the form of a metric insight depends on the comparison alone: the bare
\* value when the metric has no comparison; "new this <noun>" when the
\* previous value was 0; "unchanged" when the two values are equal; otherwise
\* the arrow form, up or down, whose percent is that of the comparison and
\* whose stated previous value is the value compared against.
C11_InsightFormFromComparison ==
    pc = "return" =>
        LET c == args.current
            p == args.previous
        IN /\ result.label = args.label
           /\ result.value = c
           /\ ~args.compared =>
                result = [text |-> "bare", label |-> args.label, value |-> c]
           /\ (args.compared /\ p = 0) =>
                /\ result.text = "new"
                /\ result.period_label = PeriodNoun(args.period)
           /\ (args.compared /\ p > 0 /\ c = p) => result.text = "unchanged"
           /\ (args.compared /\ p > 0 /\ c # p) =>
                /\ result.text = (IF c > p THEN "up" ELSE "down")
                /\ result.previous = p
                /\ 2 * Abs(result.percent * p - Abs(c - p) * 1000) <= p

\* 17 compared against 16: up 6.2% from 16
C11_Witness ==
    /\ pc = "return"
    /\ args.compared /\ args.current = 17 /\ args.previous = 16
    /\ result.text = "up" /\ result.percent = 62 /\ result.previous = 16

\* C12: in every report generate_report returns, whether the try block ran to
\* its end or the except clause ran, every key of comparisons is a key of
\* metrics.
C12_ComparisonsWithinMetrics ==
    Returned => DictKeys(report.comparisons) \subseteq DictKeys(report.metrics)

\* the except clause ran after the comparisons were computed
C12_Witness ==
    /\ Returned
    /\ "error" \in DOMAIN report
    /\ report.comparisons # <<>>
    /\ previous_metrics # <<>>
    /\ DictKeys(previous_metrics) # DictKeys(report.metrics)

\* what a rendered block is: the kind of section, told by its type and title
BlockKind(b, i, n) ==
    IF b.type = "section"
    THEN (CASE b.title = "Key Metrics" -> "metrics"
            [] b.title = "Top Events" -> "top_events"
            [] b.title = "Insights" -> "insights"
            [] b.title = "Explore More" -> "link")
    ELSE IF b.type = "context" THEN (IF i = n THEN "footer" ELSE "context")
    ELSE b.type

BlockKinds(blocks) ==
    [i \in DOMAIN blocks |-> BlockKind(blocks[i], i, Len(blocks))]

\* s can be read off t from left to right, skipping elements of t
RECURSIVE IsSubsequence(_, _)
IsSubsequence(s, t) ==
    IF s = <<>> THEN TRUE
    ELSE IF t = <<>> THEN FALSE
    ELSE IF Head(s) = Head(t) THEN IsSubsequence(Tail(s), Tail(t))
    ELSE IsSubsequence(s, Tail(t))

\* the order of blocks as listed: the link section directly after the insights
ListedOrder == <<"header", "context", "divider", "metrics", "divider",
                 "top_events", "divider", "insights", "link", "divider",
                 "footer">>

\* C13 as stated: the blocks come in the listed order header, context,
\* divider, metrics, divider, top events, divider, insights, link, divider,
\* footer, sections without content left out; the first block is the header
\* and the last two are a divider and the footer.
C13_BlocksInListedOrder ==
    pc = "return" =>
        LET kinds == BlockKinds(result)
            n == Len(kinds)
        IN /\ IsSubsequence(kinds, ListedOrder)
           /\ kinds[1] = "header"
           /\ kinds[n - 1] = "divider" /\ kinds[n] = "footer"

\* the order of blocks with every section present, and the report field a
\* block is there for ("" for a block that is always there)
FullOrder == <<"header", "context", "divider", "metrics", "divider",
               "top_events", "divider", "insights", "divider", "link",
               "divider", "footer">>

BlockOf == <<"", "", "", "metrics", "top_events", "top_events", "insights",
             "insights", "mixpanel_url", "mixpanel_url", "", "">>

RECURSIVE KeptFrom(_, _)
KeptFrom(i, call_args) ==
    IF i > Len(FullOrder) THEN <<>>
    ELSE (IF BlockOf[i] = "" THEN <<FullOrder[i]>>
          ELSE IF BlockOf[i] = "mixpanel_url"
          THEN (IF call_args.mixpanel_url # "" THEN <<FullOrder[i]>> ELSE <<>>)
          ELSE IF call_args[BlockOf[i]] # <<>> THEN <<FullOrder[i]>> ELSE <<>>)
         \o KeptFrom(i + 1, call_args)

\* C13, amended: the blocks come in the order header, context, divider,
\* metrics section, divider + top-events section, divider + insights section,
\* divider + link section, divider, footer, where the metrics section, and
\* each of the three divider + section pairs, is there exactly when its report
\* field has content (the link pair when there is a dashboard URL).
C13_BlocksInFixedOrder ==
    pc = "return" =>
        /\ BlockKinds(result) = KeptFrom(1, args)
        /\ BlockKinds(result)[1] = "header"
        /\ BlockKinds(result)[Len(result) - 1] = "divider"
        /\ BlockKinds(result)[Len(result)] = "footer"

\* a report with every section and a dashboard URL: twelve blocks
C13_Witness ==
    /\ pc = "return"
    /\ args.metrics # <<>> /\ args.top_events # <<>> /\ args.insights # <<>>
    /\ args.mixpanel_url # ""
    /\ BlockKinds(result) = FullOrder

HasSection(blocks, title) ==
    \E i \in DOMAIN blocks :
        IF "title" \in DOMAIN blocks[i] THEN blocks[i].title = title ELSE FALSE

\* the blocks of the same report without its top events
WithoutTopEvents(a) ==
    _build_report_blocks(a.period, a.metrics, <<>>, a.insights, a.comparisons,
                         a.mixpanel_url, a.from_date, a.to_date, today)

\* C14: the rendered blocks hold the metrics section, the top-events section
\* and the insights section exactly when the report's metrics, top_events and
\* insights are not empty, no section is rendered without lines, and the
\* report without its top events renders to strictly fewer blocks.
C14_NoEmptySection ==
    pc = "return" =>
        /\ HasSection(result, "Key Metrics") <=> args.metrics # <<>>
        /\ HasSection(result, "Top Events") <=> args.top_events # <<>>
        /\ HasSection(result, "Insights") <=> args.insights # <<>>
        /\ \A i \in DOMAIN result :
             "lines" \in DOMAIN result[i] => result[i].lines # <<>>
        /\ args.top_events # <<>> => Len(WithoutTopEvents(args)) < Len(result)
        /\ args.top_events = <<>> => Len(WithoutTopEvents(args)) = Len(result)

\* metrics and insights but no top events: no top-events section
C14_Witness ==
    /\ pc = "return"
    /\ args.top_events = <<>>
    /\ args.metrics # <<>> /\ args.insights # <<>> /\ args.mixpanel_url = ""
    /\ ~HasSection(result, "Top Events")
    /\ Len(result) = 8

\* C15: the bar of every displayed top event is 8 characters wide, its filled
\* part is the event's share of the greatest displayed count, in eighths
\* rounded down, and at least one character is filled.
C15_BarFixedWidth ==
    pc = "return" =>
        \A i \in DOMAIN result :
            (IF "title" \in DOMAIN result[i]
             THEN result[i].title = "Top Events" ELSE FALSE) =>
                LET lines == result[i].lines
                    top == lines[1].count
                IN /\ Len(lines) = Min(5, Len(args.top_events))
                   /\ \A j \in DOMAIN lines :
                        /\ lines[j].count = args.top_events[j].count
                        /\ lines[j].bar.filled + lines[j].bar.empty = 8
                        /\ lines[j].bar.filled >= 1
                        /\ lines[j].bar.filled * top <= Max(top, 8 * lines[j].count)
                        /\ (lines[j].bar.filled + 1) * top > 8 * lines[j].count

\* the candidate events, in the order they are to be tried
Candidates == <<"$ae_session", "Sign Up", "User Onboarded">>

\* what the unique-users query for candidate i answered: its total, or 0
CandidateTotal(answers, i) == AnsweredTotal(answers[Query("unique", Candidates[i])])

\* C16: the active-users metric is the unique-users total of the first of
\* $ae_session, Sign Up, User Onboarded whose total is not zero; the
\* candidates up to and including that one are queried, in that order, and
\* none after it; a candidate that raises or comes back empty is passed over;
\* when no candidate has a nonzero total, all three are queried and the
\* metrics hold no active-users key.
C16_FirstNonzeroCandidate ==
    pc = "return" =>
        LET nonzero == {i \in DOMAIN Candidates : CandidateTotal(args.answers, i) > 0}
            queried == queried_events(args.answers, ACTIVE_USER_EVENTS)
            name == user_metric_name(args.period)
        IN IF nonzero = {}
           THEN /\ DictKeys(result) \cap ActiveUserNames = {}
                /\ queried = Candidates
           ELSE LET first == CHOOSE i \in nonzero : \A j \in nonzero : i <= j
                IN /\ DictKeys(result) \cap ActiveUserNames = {name}
                   /\ DictGet(result, name, 0) = CandidateTotal(args.answers, first)
                   /\ queried = SubSeq(Candidates, 1, first)

\* $ae_session raises, Sign Up counts 3 users, User Onboarded would count 7
C16_Witness ==
    /\ pc = "return"
    /\ args.period = "weekly"
    /\ IsRaised(args.answers[Query("unique", "$ae_session")])
    /\ CandidateTotal(args.answers, 2) = 3
    /\ CandidateTotal(args.answers, 3) = 7
    /\ DictGet(result, "Weekly Active Users", 0) = 3
    /\ queried_events(args.answers, ACTIVE_USER_EVENTS) = <<"$ae_session", "Sign Up">>

\* a call of generate_custom_report with an event list that is not empty
WithEventList ==
    IF call.entry = "generate_custom_report" THEN call.events # <<>> ELSE FALSE

\* C17: generate_custom_report with a non-empty event list returns a raw
\* report: results holds one entry per listed event, in order, each the
\* event's query result or an error marker when its query raised; nothing
\* propagates, and the report has no comparisons and no insights.
C17_EventListIsRaw ==
    (WithEventList /\ pc # "idle") =>
        /\ pc = "done"
        /\ "results" \in DOMAIN report
        /\ [i \in DOMAIN report.results |-> report.results[i].k] = call.events
        /\ \A i \in DOMAIN report.results :
             \/ report.results[i].v = [error |-> "ConnectionError"]
             \/ report.results[i].v \in {ErrorBody, NoneBody, OkBody(OkShapes[1])}
        /\ "insights" \notin DOMAIN report
        /\ "comparisons" \notin DOMAIN report

\* C20: one send request makes one POST: send_message returns true exactly
\* when that POST answered with status 200 and false, without raising, when
\* the POST raised a transport error; after the result, whatever it is,
\* nothing is posted again.
C20_OnePostPerSend ==
    /\ Len(posts) <= 1
    /\ pc # "return" => posts = <<>>
    /\ pc = "return" =>
        /\ Len(posts) = 1
        /\ posts[1].to = "webhook"
        /\ result \in BOOLEAN
        /\ result <=> (posts[1].outcome = [status |-> 200])
        /\ IsRaised(posts[1].outcome) => result = FALSE
        /\ ~ENABLED NextSend

\* the POST timed out: false is returned after the one attempt
C20_Witness ==
    /\ pc = "return"
    /\ posts[1].outcome = Raised("Timeout")
    /\ result = FALSE
    /\ Len(posts) = 1

PeriodTokens == {"daily", "weekly", "biweekly", "monthly", "custom"}

\* the first word of a slash command, in lower case, written out
FirstWord(parts) ==
    CASE parts[1] = "Daily" -> "daily"
      [] parts[1] = "HELP" -> "help"
      [] OTHER -> parts[1]

\* the day counts of the model that are numbers in [1, 90], and their values
DaysOf(chars) ==
    CASE chars = <<"7">> -> 7
      [] chars = <<"0", "7">> -> 7
      [] chars = <<"9", "0">> -> 90
      [] OTHER -> 0

\* a slash command that asks for a report of a period, with days from 1 to 90
\* when the period is custom
ValidCommand(parts) ==
    /\ parts # <<>>
    /\ FirstWord(parts) \in PeriodTokens
    /\ FirstWord(parts) = "custom" =>
         (IF Len(parts) > 1 THEN DaysOf(parts[2]) > 0 ELSE FALSE)

\* a request with a period token outside the five, or a custom request
\* without a usable days value (and, over HTTP, without explicit dates)
InvalidRequest ==
    IF call.entry = "SlackCommand"
    THEN /\ call.parts # <<>>
         /\ FirstWord(call.parts) # "help"
         /\ ~ValidCommand(call.parts)
    ELSE \/ call.period \notin PeriodTokens
         \/ call.period = "custom" /\ (call.from_date = NoDate \/ call.to_date = NoDate)

IsErrorResponse(resp) ==
    IF "is_error" \in DOMAIN resp THEN resp.is_error ELSE resp.status_code >= 400

\* C18: for an invalid request (a period token outside daily, weekly,
\* biweekly, monthly, custom, or a custom request whose days is missing, not
\* a number or outside 1..90), neither trigger calls a method of the
\* ReportGenerator or starts a background thread, and the response is an
\* error response.
C18_InvalidInputRejected ==
    InvalidRequest =>
        /\ \A i \in DOMAIN core : core[i] = Construct
        /\ thread = NoThread
        /\ pc = "done" => IsErrorResponse(result)

\* a valid slash command that comes with a response_url
ValidWithResponseUrl ==
    IF call.entry = "SlackCommand"
    THEN call.response_url # "" /\ ValidCommand(call.parts)
    ELSE FALSE

\* the acknowledgment a valid command is answered with
ExpectedAck ==
    LET word == FirstWord(call.parts)
        label == CASE word = "daily" -> "Daily"
                   [] word = "weekly" -> "Weekly"
                   [] word = "biweekly" -> "Bi-weekly"
                   [] word = "monthly" -> "Monthly"
                   [] word = "custom" -> [last_days |-> DaysOf(call.parts[2])]
    IN [status_code |-> 200, text |-> <<"Generating", label, "report">>]

\* C19: for a valid slash command with a response_url the handler starts the
\* background thread and, wherever that thread is (not yet run, generating,
\* sending, finished, failed), can return its acknowledgment at once; the
\* response, once returned, is that acknowledgment whatever the thread does
\* afterwards, also when it fails.
C19_AckWithoutWaiting ==
    ValidWithResponseUrl =>
        /\ pc = "received" => thread = NoThread
        /\ pc # "received" => thread # NoThread
        /\ pc = "started" => result = NoValue /\ ENABLED SlashAck
        /\ pc = "done" => result = ExpectedAck

\* the background task failed and the acknowledgment stands
C19_Witness ==
    /\ ValidWithResponseUrl
    /\ pc = "done"
    /\ thread # NoThread
    /\ thread.at = "failed"
    /\ thread.period = "custom" /\ thread.days = 90
    /\ result = [status_code |-> 200,
                 text |-> <<"Generating", [last_days |-> 90], "report">>]

\* C21: every report the custom-report HTTP trigger returns with status 200,
\* whether asked for by period, by explicit dates or by an event list, has
\* the fields period, from_date, to_date, generated_at, metrics, top_events,
\* insights, comparisons and mixpanel_url, and slack_sent.
C21_HttpReportFields ==
    (call.entry = "CustomReport" /\ pc = "done") =>
        (result.status_code = 200 =>
            ReportFields \cup {"slack_sent"} \subseteq DOMAIN result.body)

\* C22: two Mondays in a row on which the bi-weekly report runs are two weeks
\* apart, also across the end of a year and of a year with 53 ISO weeks.
C22_EveryOtherMonday ==
    hist.gap # 0 => hist.gap = 14

\* the statements of generate_report in the order the claim lists them
ClaimedSteps ==
    {<<"idle", "metrics">>, <<"metrics", "previous">>, <<"previous", "compare">>,
     <<"compare", "top_events">>, <<"top_events", "insights">>,
     <<"insights", "done">>}

\* the statements of generate_report with the ranking first
RankFirstSteps ==
    {<<"idle", "top_events">>, <<"top_events", "metrics">>,
     <<"metrics", "previous">>, <<"previous", "compare">>,
     <<"compare", "insights">>, <<"insights", "done">>}

\* C23 as stated: generate_report resolves the windows, aggregates the current
\* and the previous metrics, compares, ranks the top events and then generates
\* the insights.
C23_RankAfterComparison ==
    [][(RunsGenerateReport(call) /\ pc' # pc) => <<pc, pc'>> \in ClaimedSteps]_vars

\* C23 amended: generate_report resolves the windows, ranks the top events,
\* aggregates the current and the previous metrics, compares and then
\* generates the insights.
C23_RankFirst ==
    [][(RunsGenerateReport(call) /\ pc' # pc) => <<pc, pc'>> \in RankFirstSteps]_vars

\* the ranking has run and no metric has been aggregated yet
C23_Witness ==
    /\ RunsGenerateReport(call)
    /\ pc = "metrics"
    /\ report.top_events # <<>>
    /\ report.metrics = <<>>

\* the insights of a list that note partial data
DegradedInsights(insights) ==
    {i \in DOMAIN insights : insights[i].text = "degraded"}

\* the step in which a stage raises and the except clause of generate_report runs
ExceptStep ==
    /\ RunsGenerateReport(call)
    /\ pc # "done" /\ pc' = "done"
    /\ TopEventRaises(report.top_events)

\* C24: when a stage of generate_report raises, the returned report has error
\* set to the description of the exception, one degraded insight, which is the
\* last of insights, every mandatory field, and the results of the stages that
\* completed (top_events, metrics, comparisons) as they were.
C24_DegradedReport ==
    /\ [](Returned /\ hist.unreadable =>
            /\ "error" \in DOMAIN report
            /\ report.error = "KeyError"
            /\ ReportFields \subseteq DOMAIN report
            /\ DegradedInsights(report.insights) = {Len(report.insights)}
            /\ report.insights[Len(report.insights)].error = report.error)
    /\ [][ExceptStep =>
            /\ report'.insights = Append(report.insights,
                                         [text |-> "degraded", error |-> "KeyError"])
            /\ \A f \in ReportFields \ {"insights"} : report'[f] = report[f]]_vars

\* the except clause ran on a report that held ranked events, metrics and
\* comparisons
C24_Witness ==
    /\ Returned
    /\ "error" \in DOMAIN report
    /\ report.top_events # <<>>
    /\ report.metrics # <<>>
    /\ report.comparisons # <<>>

\* what _calculate_change returns for 0 against 0: the one outcome that is
\* neither new nor measured against a previous value
IsZeroOverZero(change) == ~change.is_new /\ "previous" \notin DOMAIN change

\* C25: every value of the metrics of a report, and of the previous window's
\* metrics, is a positive total of the counts a query returned; a zero total
\* has no entry, so no comparison is made for a current value of 0 and none
\* is the outcome of 0 against 0.
C25_MetricsArePositive ==
    InGenerateReport =>
        /\ \A i \in DOMAIN report.metrics :
            /\ report.metrics[i].v > 0
            /\ \E j \in DOMAIN ShapeTotals : report.metrics[i].v = ShapeTotals[j]
        /\ \A i \in DOMAIN previous_metrics : previous_metrics[i].v > 0
        /\ \A i \in DOMAIN report.comparisons :
            /\ DictGet(report.metrics, report.comparisons[i].k, 0) > 0
            /\ ~IsZeroOverZero(report.comparisons[i].v)

\* a report with a metric that the previous window lacks: compared against 0
C25_Witness ==
    /\ Returned
    /\ report.metrics # <<>>
    /\ \E i \in DOMAIN report.comparisons :
        /\ report.comparisons[i].v.is_new
        /\ ~DictHas(previous_metrics, report.comparisons[i].k)

\* C26: in every report generate_report returns without an error field, the
\* keys of comparisons are the keys of metrics, and a metric that the
\* previous window lacks is compared against 0: new, up, 100%.
C26_EveryMetricCompared ==
    (Returned /\ "error" \notin DOMAIN report) =>
        /\ DictKeys(report.comparisons) = DictKeys(report.metrics)
        /\ Len(report.comparisons) = Len(report.metrics)
        /\ \A i \in DOMAIN report.comparisons :
            ~DictHas(previous_metrics, report.comparisons[i].k) =>
                report.comparisons[i].v =
                    [percent |-> 1000, direction |-> "up", is_new |-> TRUE]

\* a report with a metric that the previous window, which holds another
\* metric, lacks
C26_Witness ==
    /\ Returned
    /\ "error" \notin DOMAIN report
    /\ previous_metrics # <<>>
    /\ \E j \in DOMAIN report.metrics :
        /\ ~DictHas(previous_metrics, report.metrics[j].k)
        /\ DictGet(report.comparisons, report.metrics[j].k, NoComparison).is_new

\* C27: _calculate_change reports the direction flat exactly when the percent
\* it reports is 0; an up or a down comes with a percent above 0.
C27_FlatIffZeroPercent ==
    pc = "return" => (result.direction = "flat" <=> result.percent = 0)

\* the posts of the background task to response_url that confirm a sent report
Confirmations ==
    {i \in DOMAIN posts :
        IF posts[i].to = "webhook" THEN FALSE
        ELSE ~posts[i].is_error /\ posts[i].text = "report generated"}

\* C28: the background task of the slash command posts its confirmation to
\* response_url only after the report's delivery to the channel returned
\* success: a POST to the webhook that was answered with status 200.
C28_ConfirmOnlyAfterDelivery ==
    \A i \in Confirmations :
        \E j \in 1..(i - 1) :
            /\ posts[j].to = "webhook"
            /\ posts[j].outcome = [status |-> 200]

\* the posts the background task made to response_url
ResponseUrlPosts == {i \in DOMAIN posts : posts[i].to # "webhook"}

ThreadStarted == thread # NoThread

ThreadIsOver == IF thread = NoThread THEN FALSE ELSE thread.at \in ThreadOver

\* C29: every background task the slash command starts comes to its end, and
\* has then posted to response_url exactly once, a confirmation or an error,
\* whatever generation, delivery and that post itself did; it never posts
\* twice and no exception leaves the thread.
C29_OnePostThenOver ==
    /\ [](ThreadStarted =>
            /\ thread.at # "crashed"
            /\ Cardinality(ResponseUrlPosts) <= 1
            /\ (ThreadIsOver => Cardinality(ResponseUrlPosts) = 1))
    /\ (ThreadStarted ~> ThreadIsOver)

\* the report was delivered and the POST of the confirmation failed
C29_Witness ==
    /\ ThreadIsOver
    /\ Len(posts) = 2
    /\ posts[1].to = "webhook"
    /\ posts[2].to # "webhook"
    /\ IsRaised(posts[2].outcome)

====
